---- MODULE Spec2Model ----
(***************************************************************************)
(* The document processing job queue of backend/worker.py: the documents   *)
(* table (Job Store), the lease procedures the worker calls, the pipeline  *)
(* of process_document, the janitor, the expired-lease recovery and the     *)
(* administrative reset of app/routes/admin.py.                            *)
(*                                                                         *)
(* Time is counted in ticks of five minutes and kept relative to "now":    *)
(* a lease_expires_at of <<v>> expires v ticks from now, <<-1>> lies in    *)
(* the past, <<>> is NULL.  A stage with a timeout below one tick, and     *)
(* every database round trip, ends within the tick it began in; only the   *)
(* text extraction (600 s) can span ticks.                                 *)
(***************************************************************************)
EXTENDS Integers, FiniteSets, Sequences, TLC

NumJobs == 1
NumWorkers == 2
MaxCrashes == 1
MaxMsgs == 2
MaxTextLen == 1
MaxRows == 3
MaxStamp == 2
MaxLines == 2
MaxChunkText == 4
MaxChunkSize == 3
MaxIterations == 6

max_retries == 3
LeaseTicks == 1
ExtractTimeoutTicks == 2
DownloadTimeoutTicks == 0
EmbedTimeoutTicks == 0
IndexTimeoutTicks == 0
chunk_size == 5
chunk_overlap == 1
batch_size == 1

Jobs == 1..NumJobs
Workers == 1..NumWorkers

NoLease == <<>>
NoError == "NULL"
NoJob == 0

VARIABLES
    docs,            \* the documents table: one row per job
    dbUp,            \* whether database round trips succeed
    pc,              \* per worker: where it is in process_batch / process_document
    job,             \* per worker: the document it is handling
    lease_acquired,  \* per worker: process_document's local of that name
    werr,            \* per worker: the error message of the failure path
    elapsed,         \* per worker: ticks spent in the running stage
    jsnap,           \* janitor: the rows it loaded and decided to reset
    expired_docs,    \* recovery: rows returned by find_expired_leases, not yet released
    crashes,         \* number of worker crashes so far
    started,         \* history: committed lease acquisitions per job
    persisted,       \* history, per worker: progress values written in this attempt
    queue,           \* Service Bus: messages waiting in the queue, per document
    msg,             \* per worker: the document of the message it holds locked
    completed_msgs,  \* history: complete_message calls per document
    text,            \* per worker: the text extracted in this attempt
    running,         \* per worker: DocumentWorker.running
    upload,          \* per job: how far the upload request that creates its row is
    documents,       \* the rows a poll queries
    queued_docs,     \* the rows the poll selected
    lines,           \* the lines _parse_questions_from_text has still to read
    questions,       \* its result so far
    current_question,
    current_subpoints,
    cleaned_questions, \* what it returned, once it has
    chunker            \* the text, the configuration and the locals of chunk_text

vars == <<docs, dbUp, pc, job, lease_acquired, werr, elapsed, jsnap, expired_docs,
          crashes, started, persisted, queue, msg, completed_msgs, text, running,
          upload, documents, queued_docs, lines, questions, current_question, current_subpoints,
          cleaned_questions, chunker>>

bus == <<queue, msg, completed_msgs>>

\* The state of the poll query and of the question parser taken alone.
pure == <<documents, queued_docs, lines, questions, current_question, current_subpoints,
          cleaned_questions, chunker>>

NoText == <<>>
NoQuestion == <<>>
NoResult == <<>>
NoChunker == <<>>

Min(a, b) == IF a < b THEN a ELSE b
Max(a, b) == IF a > b THEN a ELSE b

\* A row of the documents table as the upload endpoint creates it.
Document ==
    [status |-> "queued", progress |-> 0, chunk_count |-> 0,
     processing_attempts |-> 0, lease_expires_at |-> NoLease,
     last_error |-> NoError, processing_started_at |-> NoLease,
     message_enqueued_at |-> NoLease]

\* lease_expires_at < now
Expired(d) == d.lease_expires_at # NoLease /\ d.lease_expires_at[1] < 0

(***************************************************************************)
(* The stored procedures (the SQL is not part of the sources; they follow  *)
(* the Lease Manager of the specification).                                *)
(***************************************************************************)
acquire_document_lease(d) ==
    IF d.status = "queued" /\ d.processing_attempts < max_retries
    THEN [acquired |-> TRUE,
          doc |-> [d EXCEPT !.status = "processing",
                            !.processing_attempts = @ + 1,
                            !.lease_expires_at = <<LeaseTicks>>]]
    ELSE [acquired |-> FALSE, doc |-> d]

release_document_lease(d, success, error) ==
    IF success
    THEN [d EXCEPT !.status = "completed", !.progress = 100,
                   !.lease_expires_at = NoLease, !.last_error = NoError]
    ELSE IF d.processing_attempts < max_retries
         THEN [d EXCEPT !.status = "queued", !.lease_expires_at = NoLease,
                        !.progress = 0, !.last_error = error]
         ELSE [d EXCEPT !.status = "failed", !.lease_expires_at = NoLease,
                        !.last_error = error]

find_expired_leases(table) ==
    {j \in Jobs : table[j].status = "processing" /\ Expired(table[j])}

(***************************************************************************)
(* DocumentWorker.acquire_lease / release_lease: the procedure call, the   *)
(* commit, and the except branch that swallows a database error.           *)
(***************************************************************************)
\* A wrapper that reports success whenever the procedure returned a row.
acquire_lease_row_is_true(d, ok) ==
    IF ok
    THEN [acquired |-> TRUE, doc |-> acquire_document_lease(d).doc]
    ELSE [acquired |-> FALSE, doc |-> d]

\* A wrapper whose database error leaves the procedure's update in place.
acquire_lease_no_rollback(d, ok) ==
    LET row == acquire_document_lease(d)
    IN  [acquired |-> ok /\ row.acquired, doc |-> row.doc]

\* A wrapper that does not pass the error message on.
release_lease_drops_error(d, success, error_message, ok) ==
    IF ok
    THEN [release_document_lease(d, success, NoError)
            EXCEPT !.message_enqueued_at = NoLease]
    ELSE d

acquire_lease(d, ok) ==
    IF ok
    THEN LET row == acquire_document_lease(d)
         IN  [acquired |-> row.acquired, doc |-> row.doc]
    ELSE [acquired |-> FALSE, doc |-> d]

release_lease(d, success, error_message, ok) ==
    IF ok
    THEN [release_document_lease(d, success, error_message)
            EXCEPT !.message_enqueued_at = NoLease]
    ELSE d

Init ==
    /\ docs = [j \in Jobs |-> Document]
    /\ dbUp = TRUE
    /\ pc = [w \in Workers |-> "idle"]
    /\ job = [w \in Workers |-> NoJob]
    /\ lease_acquired = [w \in Workers |-> FALSE]
    /\ werr = [w \in Workers |-> NoError]
    /\ elapsed = [w \in Workers |-> 0]
    /\ jsnap = {}
    /\ expired_docs = {}
    /\ crashes = 0
    /\ started = [j \in Jobs |-> 0]
    /\ persisted = [w \in Workers |-> <<>>]
    /\ queue = [j \in Jobs |-> 0]
    /\ msg = [w \in Workers |-> NoJob]
    /\ completed_msgs = [j \in Jobs |-> 0]
    /\ text = [w \in Workers |-> NoText]
    /\ running = [w \in Workers |-> TRUE]
    /\ upload = [j \in Jobs |-> "committed"]
    /\ documents = <<>>
    /\ queued_docs = <<>>
    /\ lines = <<>>
    /\ questions = <<>>
    /\ current_question = NoQuestion
    /\ current_subpoints = <<>>
    /\ cleaned_questions = NoResult
    /\ chunker = NoChunker

(***************************************************************************)
(* DocumentWorker.process_batch and process_document, one action per       *)
(* database round trip or stage call.                                      *)
(***************************************************************************)
Stages == {"download", "extract", "embed", "index"}

StageTimeout(p) ==
    CASE p = "download" -> DownloadTimeoutTicks
      [] p = "extract"  -> ExtractTimeoutTicks
      [] p = "embed"    -> EmbedTimeoutTicks
      [] p = "index"    -> IndexTimeoutTicks

\* Between a successful acquire and the release that follows it.
InAttempt(w) ==
    pc[w] \in {"download", "extract", "chunk", "embed", "index", "release_ok", "release_fail"}
    \/ (pc[w] = "start" /\ lease_acquired[w])

Goto(w, p) == pc' = [pc EXCEPT ![w] = p]

\* No except branch: the exception leaves process_document and ends run().
Fail_escapes(w, error_msg) ==
    /\ Goto(w, "stopped")
    /\ werr' = [werr EXCEPT ![w] = error_msg]
    /\ elapsed' = [elapsed EXCEPT ![w] = 0]
    /\ persisted' = [persisted EXCEPT ![w] = <<>>]

\* An except branch that returns False without the failure release.
Fail_without_release(w, error_msg) ==
    /\ Goto(w, "idle")
    /\ werr' = [werr EXCEPT ![w] = error_msg]
    /\ elapsed' = [elapsed EXCEPT ![w] = 0]
    /\ persisted' = [persisted EXCEPT ![w] = <<>>]

\* The except branches of process_document: remember the message, go release.
Fail(w, error_msg) ==
    /\ Goto(w, "release_fail")
    /\ werr' = [werr EXCEPT ![w] = error_msg]
    /\ elapsed' = [elapsed EXCEPT ![w] = 0]
    /\ persisted' = [persisted EXCEPT ![w] = <<>>]

\* The locals process_document leaves behind when it returns.
Leave(w) ==
    /\ job' = [job EXCEPT ![w] = NoJob]
    /\ lease_acquired' = [lease_acquired EXCEPT ![w] = FALSE]
    /\ werr' = [werr EXCEPT ![w] = NoError]
    /\ elapsed' = [elapsed EXCEPT ![w] = 0]
    /\ persisted' = [persisted EXCEPT ![w] = <<>>]
    /\ text' = [text EXCEPT ![w] = NoText]

\* A Service Bus loop that completes the message whatever was returned.
Return_completes(w) ==
    /\ Goto(w, IF msg[w] = NoJob THEN "idle" ELSE "complete")
    /\ Leave(w)

\* process_document returns False: back to the polling loop, or to the
\* abandon_message of the Service Bus loop.
Return(w) ==
    /\ Goto(w, IF msg[w] = NoJob THEN "idle" ELSE "abandon")
    /\ Leave(w)

\* process_document returns True: back to the polling loop, or to the
\* complete_message of the Service Bus loop.
ReturnTrue(w) ==
    /\ Goto(w, IF msg[w] = NoJob THEN "idle" ELSE "complete")
    /\ Leave(w)

\* A loop that does not look at the flag.
loop_continues_always(w) == TRUE

\* "while self.running" of run().
loop_continues(w) == running[w]

\* handle_shutdown: the signal handler only clears the flag.
handle_shutdown(w) ==
    /\ running[w]
    /\ running' = [running EXCEPT ![w] = FALSE]
    /\ UNCHANGED <<docs, dbUp, pc, job, lease_acquired, werr, elapsed, jsnap, expired_docs,
                   crashes, started, persisted, queue, msg, completed_msgs, text>>
    /\ UNCHANGED pure
    /\ UNCHANGED upload

\* The query of process_batch (batch_size = 1) and the call of process_document.
process_batch(w) ==
    /\ UNCHANGED text
    /\ UNCHANGED running
    /\ UNCHANGED pure
    /\ UNCHANGED upload
    /\ UNCHANGED <<persisted, queue, msg, completed_msgs>>
    /\ pc[w] = "idle"
    /\ loop_continues(w)
    /\ dbUp
    /\ \E j \in Jobs :
          /\ docs[j].status = "queued"
          /\ job' = [job EXCEPT ![w] = j]
    /\ Goto(w, "acquire")
    /\ lease_acquired' = [lease_acquired EXCEPT ![w] = FALSE]
    /\ UNCHANGED <<docs, dbUp, werr, elapsed, jsnap, expired_docs, crashes, started>>

\* acquire_lease returns within the 10 s of wait_for.
pd_acquire(w) ==
    /\ UNCHANGED text
    /\ UNCHANGED running
    /\ UNCHANGED pure
    /\ UNCHANGED upload
    /\ pc[w] = "acquire"
    /\ LET j == job[w]
           r == acquire_lease(docs[j], dbUp)
       IN  /\ docs' = [docs EXCEPT ![j] = r.doc]
           /\ lease_acquired' = [lease_acquired EXCEPT ![w] = r.acquired]
           /\ started' = [started EXCEPT ![j] = IF r.acquired THEN @ + 1 ELSE @]
    /\ persisted' = [persisted EXCEPT ![w] = <<>>]
    /\ Goto(w, "start")
    /\ UNCHANGED bus
    /\ UNCHANGED <<dbUp, job, werr, elapsed, jsnap, expired_docs, crashes>>

\* The database hangs and wait_for cancels acquire_lease: process_document
\* returns False, whether or not the procedure had committed.
pd_acquire_timeout(w) ==
    /\ UNCHANGED running
    /\ UNCHANGED pure
    /\ UNCHANGED upload
    /\ UNCHANGED bus
    /\ pc[w] = "acquire"
    /\ ~dbUp
    /\ LET j == job[w]
           r == acquire_document_lease(docs[j])
       IN  \/ UNCHANGED <<docs, started>>
           \/ /\ r.acquired
              /\ docs' = [docs EXCEPT ![j] = r.doc]
              /\ started' = [started EXCEPT ![j] = @ + 1]
    /\ Return(w)
    /\ UNCHANGED <<dbUp, jsnap, expired_docs, crashes>>

\* "if not lease_acquired: return False"; else refresh and progress = 10.
pd_start(w) ==
    /\ UNCHANGED running
    /\ UNCHANGED pure
    /\ UNCHANGED upload
    /\ UNCHANGED bus
    /\ pc[w] = "start"
    /\ LET j == job[w]
       IN  \/ /\ ~lease_acquired[w]
              /\ Return(w)
              /\ UNCHANGED docs
           \/ /\ lease_acquired[w]
              /\ dbUp
              /\ docs' = [docs EXCEPT ![j].progress = 10]
              /\ persisted' = [persisted EXCEPT ![w] = Append(@, 10)]
              /\ Goto(w, "download")
              /\ UNCHANGED <<job, lease_acquired, werr, elapsed, text>>
           \/ /\ lease_acquired[w]
              /\ ~dbUp
              /\ Fail(w, "error")
              /\ UNCHANGED <<docs, job, lease_acquired, text>>
    /\ UNCHANGED <<dbUp, jsnap, expired_docs, crashes, started>>

\* A stage call that raises, or exceeds the timeout of its wait_for.
StageFails(w) ==
    \/ Fail(w, "error")
    \/ /\ elapsed[w] >= StageTimeout(pc[w])
       /\ Fail(w, IF pc[w] = "extract" THEN "error" ELSE "timeout")

\* get_file, then progress = 25.
pd_download(w) ==
    /\ UNCHANGED text
    /\ UNCHANGED running
    /\ UNCHANGED pure
    /\ UNCHANGED upload
    /\ UNCHANGED bus
    /\ pc[w] = "download"
    /\ LET j == job[w]
       IN  \/ /\ dbUp
              /\ docs' = [docs EXCEPT ![j].progress = 25]
              /\ persisted' = [persisted EXCEPT ![w] = Append(@, 25)]
              /\ Goto(w, "extract")
              /\ UNCHANGED <<werr, elapsed>>
           \/ /\ ~dbUp
              /\ Fail(w, "error")
              /\ UNCHANGED docs
           \/ /\ StageFails(w)
              /\ UNCHANGED docs
    /\ UNCHANGED <<dbUp, job, lease_acquired, jsnap, expired_docs, crashes, started>>

(***************************************************************************)
(* Text, in units of 200 characters, over a blank and a letter: str.strip  *)
(* and DocumentProcessor.chunk_text.                                       *)
(***************************************************************************)
Chars == {" ", "a"}

Whitespace == {" ", "\n"}

Texts == UNION {[1..n -> Chars] : n \in 0..MaxTextLen}

RECURSIVE lstrip(_)
lstrip(s) == IF s # <<>> /\ Head(s) \in Whitespace THEN lstrip(Tail(s)) ELSE s

RECURSIVE rstrip(_)
rstrip(s) ==
    IF s # <<>> /\ s[Len(s)] \in Whitespace THEN rstrip(SubSeq(s, 1, Len(s) - 1)) ELSE s

strip(s) == rstrip(lstrip(s))

\* A slice index as Python reads it: a negative one counts from the end.
slice_index(i, n) == IF i < 0 THEN Max(n + i, 0) ELSE Min(i, n)

\* text[a:b]
slice(s, a, b) == SubSeq(s, slice_index(a, Len(s)) + 1, slice_index(b, Len(s)))

\* text.rfind(delimiter, a, b): the last position of the delimiter inside
\* text[a:b], or -1.
rfind(s, delimiter, a, b) ==
    LET lo == slice_index(a, Len(s))
        hi == slice_index(b, Len(s))
        found == {k \in lo..(hi - Len(delimiter)) :
                     SubSeq(s, k + 1, k + Len(delimiter)) = delimiter}
    IN  IF found = {} THEN 0 - 1 ELSE CHOOSE k \in found : \A m \in found : m <= k

\* The delimiters in the order chunk_text tries them ('! ' and '? ' are
\* tried like '. ').
Delimiters == << <<".", " ">>, <<"\n", "\n">>, <<"\n">> >>

RECURSIVE break_at(_, _, _, _)
\* The end of the window after the search from delimiter number d on.
break_at(s, start, end, d) ==
    IF d > Len(Delimiters) THEN end
    ELSE LET last_delim == rfind(s, Delimiters[d], start, end)
         IN  IF last_delim # 0 - 1 THEN last_delim + Len(Delimiters[d])
             ELSE break_at(s, start, end, d + 1)

\* "end = start + self.chunk_size", moved back to a delimiter if the window
\* does not reach the end of the text.
window_end(s, size, start) ==
    IF start + size < Len(s) THEN break_at(s, start, start + size, 1) ELSE start + size

\* "start = end - self.chunk_overlap if end < len(text) else end"
next_start(s, size, overlap, start) ==
    LET end == window_end(s, size, start)
    IN  IF end < Len(s) THEN end - overlap ELSE end

RECURSIVE revisits(_, _, _, _, _)
\* The while loop from start comes back to a start it has had.
revisits(s, size, overlap, start, seen) ==
    IF start >= Len(s) THEN FALSE
    ELSE IF start \in seen THEN TRUE
    ELSE revisits(s, size, overlap, next_start(s, size, overlap, start), seen \cup {start})

\* chunk_text(s) does not return.
chunk_text_loops(s, size, overlap) == strip(s) # <<>> /\ revisits(s, size, overlap, 0, {})

\* The while loop of chunk_text from position start (counted from 0).
RECURSIVE chunk_from(_, _)
chunk_from(s, start) ==
    IF start >= Len(s) THEN <<>>
    ELSE LET end == window_end(s, chunk_size, start)
             chunk == strip(slice(s, start, end))
             next == next_start(s, chunk_size, chunk_overlap, start)
         IN  (IF chunk # <<>> THEN <<chunk>> ELSE <<>>) \o chunk_from(s, next)

chunk_text(s) == IF strip(s) = <<>> THEN <<>> ELSE chunk_from(s, 0)

\* A check that lets a text of blanks through.
no_text_extracted_if_empty(s) == s = <<>>

\* "if not text.strip(): raise ValueError('No text extracted from document')"
no_text_extracted(s) == strip(s) = <<>>

\* extract_with_metadata, the empty-text check, chunk_text, then progress = 70.
pd_extract(w) ==
    /\ UNCHANGED running
    /\ UNCHANGED pure
    /\ UNCHANGED upload
    /\ UNCHANGED bus
    /\ pc[w] = "extract"
    /\ LET j == job[w]
       IN  \/ \E s \in Texts :
                /\ text' = [text EXCEPT ![w] = <<s>>]
                /\ \/ /\ ~no_text_extracted(s)
                      /\ dbUp
                      /\ docs' = [docs EXCEPT ![j].progress = 70]
                      /\ persisted' = [persisted EXCEPT ![w] = Append(@, 70)]
                      /\ Goto(w, "embed")
                      /\ elapsed' = [elapsed EXCEPT ![w] = 0]
                      /\ UNCHANGED werr
                   \/ /\ ~no_text_extracted(s)
                      /\ ~dbUp
                      /\ Fail(w, "error")
                      /\ UNCHANGED docs
                   \/ /\ no_text_extracted(s)
                      /\ Fail(w, "no_text")
                      /\ UNCHANGED docs
           \/ /\ StageFails(w)
              /\ UNCHANGED <<docs, text>>
    /\ UNCHANGED <<dbUp, job, lease_acquired, jsnap, expired_docs, crashes, started>>

\* Texts with a delimiter, of more than chunk_size units: a unit "\n" is one
\* that ends with a delimiter.
DelimitedTexts ==
    {<<"\n", "a", "a", "a", "a", "a">>, <<"a", "\n", "a", "a", "a", "a">>}

\* extract_with_metadata returns a text on which the call of chunk_text,
\* which has no timeout and is not awaited, does not return.
pd_chunk_loops(w) ==
    /\ UNCHANGED running
    /\ UNCHANGED pure
    /\ UNCHANGED upload
    /\ UNCHANGED bus
    /\ pc[w] = "extract"
    /\ \E s \in DelimitedTexts :
          /\ ~no_text_extracted(s)
          /\ chunk_text_loops(s, chunk_size, chunk_overlap)
          /\ text' = [text EXCEPT ![w] = <<s>>]
    /\ Goto(w, "chunk")
    /\ UNCHANGED <<docs, dbUp, job, lease_acquired, werr, elapsed, persisted, jsnap,
                   expired_docs, crashes, started>>

\* embed_batch.
pd_embed(w) ==
    /\ UNCHANGED text
    /\ UNCHANGED running
    /\ UNCHANGED pure
    /\ UNCHANGED upload
    /\ UNCHANGED bus
    /\ pc[w] = "embed"
    /\ \/ /\ Goto(w, "index")
          /\ UNCHANGED <<werr, elapsed, persisted>>
       \/ StageFails(w)
    /\ UNCHANGED <<docs, dbUp, job, lease_acquired, jsnap, expired_docs, crashes, started>>

\* add_documents, then chunk_count and progress = 100.
pd_index(w) ==
    /\ UNCHANGED text
    /\ UNCHANGED running
    /\ UNCHANGED pure
    /\ UNCHANGED upload
    /\ UNCHANGED bus
    /\ pc[w] = "index"
    /\ LET j == job[w]
       IN  \/ /\ dbUp
              /\ docs' = [docs EXCEPT ![j].chunk_count = Len(chunk_text(text[w][1])),
                                       ![j].progress = 100]
              /\ persisted' = [persisted EXCEPT ![w] = Append(@, 100)]
              /\ Goto(w, "release_ok")
              /\ UNCHANGED <<werr, elapsed>>
           \/ /\ ~dbUp
              /\ Fail(w, "error")
              /\ UNCHANGED docs
           \/ /\ StageFails(w)
              /\ UNCHANGED docs
    /\ UNCHANGED <<dbUp, job, lease_acquired, jsnap, expired_docs, crashes, started>>

\* release_lease(success=True).
pd_release_ok(w) ==
    /\ UNCHANGED text
    /\ UNCHANGED running
    /\ UNCHANGED pure
    /\ UNCHANGED upload
    /\ UNCHANGED <<persisted, queue, msg, completed_msgs>>
    /\ pc[w] = "release_ok"
    /\ docs' = [docs EXCEPT ![job[w]] = release_lease(@, TRUE, NoError, dbUp)]
    /\ Goto(w, "final")
    /\ UNCHANGED <<dbUp, job, lease_acquired, werr, elapsed, jsnap, expired_docs,
                   crashes, started>>

\* The final session.refresh: return True, or raise into "except Exception".
pd_final(w) ==
    /\ UNCHANGED running
    /\ UNCHANGED pure
    /\ UNCHANGED upload
    /\ UNCHANGED bus
    /\ pc[w] = "final"
    /\ \/ /\ dbUp
          /\ ReturnTrue(w)
       \/ /\ ~dbUp
          /\ Goto(w, "release_again")
          /\ werr' = [werr EXCEPT ![w] = "error"]
          /\ UNCHANGED <<job, lease_acquired, elapsed, persisted, text>>
    /\ UNCHANGED <<docs, dbUp, jsnap, expired_docs, crashes, started>>

\* release_lease(success=False, error_message) of the except branches.
pd_release_fail(w) ==
    /\ UNCHANGED running
    /\ UNCHANGED pure
    /\ UNCHANGED upload
    /\ UNCHANGED bus
    /\ pc[w] \in {"release_fail", "release_again"}
    /\ docs' = [docs EXCEPT ![job[w]] = release_lease(@, FALSE, werr[w], dbUp)]
    /\ Return(w)
    /\ UNCHANGED <<dbUp, jsnap, expired_docs, crashes, started>>

\* The worker process dies; whatever lease it holds stays in the table, and
\* the lock on its message lapses, so that the queue delivers it again.
Crash(w) ==
    /\ UNCHANGED running
    /\ UNCHANGED pure
    /\ UNCHANGED upload
    /\ pc[w] \notin {"idle", "crashed"}
    /\ crashes < MaxCrashes
    /\ crashes' = crashes + 1
    /\ Goto(w, "crashed")
    /\ elapsed' = [elapsed EXCEPT ![w] = 0]
    /\ persisted' = [persisted EXCEPT ![w] = <<>>]
    /\ text' = [text EXCEPT ![w] = NoText]
    /\ msg' = [msg EXCEPT ![w] = NoJob]
    /\ queue' = IF msg[w] = NoJob THEN queue ELSE [queue EXCEPT ![msg[w]] = @ + 1]
    /\ UNCHANGED <<docs, dbUp, job, lease_acquired, werr, jsnap, expired_docs, started,
                   completed_msgs>>

\* A new worker process takes its place.
Restart(w) ==
    /\ UNCHANGED pure
    /\ UNCHANGED upload
    /\ UNCHANGED bus
    /\ pc[w] = "crashed"
    /\ Return(w)
    /\ running' = [running EXCEPT ![w] = TRUE]
    /\ UNCHANGED <<docs, dbUp, jsnap, expired_docs, crashes, started>>

(***************************************************************************)
(* DocumentWorker.process_from_service_bus, one message at a time: the     *)
(* receive (peek-lock), the lookup of the document with the status check,  *)
(* process_document, and complete_message or abandon_message.              *)
(***************************************************************************)
\* The start state of a deployment with Service Bus: the upload and the
\* resend scripts have put between one and MaxMsgs messages in the queue.
InitBus ==
    /\ docs = [j \in Jobs |-> Document]
    /\ dbUp = TRUE
    /\ pc = [w \in Workers |-> "idle"]
    /\ job = [w \in Workers |-> NoJob]
    /\ lease_acquired = [w \in Workers |-> FALSE]
    /\ werr = [w \in Workers |-> NoError]
    /\ elapsed = [w \in Workers |-> 0]
    /\ jsnap = {}
    /\ expired_docs = {}
    /\ crashes = 0
    /\ started = [j \in Jobs |-> 0]
    /\ persisted = [w \in Workers |-> <<>>]
    /\ queue \in [Jobs -> 1..MaxMsgs]
    /\ msg = [w \in Workers |-> NoJob]
    /\ completed_msgs = [j \in Jobs |-> 0]
    /\ text = [w \in Workers |-> NoText]
    /\ running = [w \in Workers |-> TRUE]
    /\ upload = [j \in Jobs |-> "committed"]
    /\ documents = <<>>
    /\ queued_docs = <<>>
    /\ lines = <<>>
    /\ questions = <<>>
    /\ current_question = NoQuestion
    /\ current_subpoints = <<>>
    /\ cleaned_questions = NoResult
    /\ chunker = NoChunker

\* The same where send_document_message may have failed (it logs the
\* ServiceBusError and goes on): a document may have no message at all.
InitPublish ==
    /\ docs = [j \in Jobs |-> Document]
    /\ dbUp = TRUE
    /\ pc = [w \in Workers |-> "idle"]
    /\ job = [w \in Workers |-> NoJob]
    /\ lease_acquired = [w \in Workers |-> FALSE]
    /\ werr = [w \in Workers |-> NoError]
    /\ elapsed = [w \in Workers |-> 0]
    /\ jsnap = {}
    /\ expired_docs = {}
    /\ crashes = 0
    /\ started = [j \in Jobs |-> 0]
    /\ persisted = [w \in Workers |-> <<>>]
    /\ queue \in [Jobs -> 0..MaxMsgs]
    /\ msg = [w \in Workers |-> NoJob]
    /\ completed_msgs = [j \in Jobs |-> 0]
    /\ text = [w \in Workers |-> NoText]
    /\ running = [w \in Workers |-> TRUE]
    /\ upload = [j \in Jobs |-> "committed"]
    /\ documents = <<>>
    /\ queued_docs = <<>>
    /\ lines = <<>>
    /\ questions = <<>>
    /\ current_question = NoQuestion
    /\ current_subpoints = <<>>
    /\ cleaned_questions = NoResult
    /\ chunker = NoChunker

receive_messages(w) ==
    /\ UNCHANGED text
    /\ UNCHANGED running
    /\ UNCHANGED pure
    /\ UNCHANGED upload
    /\ pc[w] = "idle"
    /\ loop_continues(w)
    /\ \E j \in Jobs :
          /\ queue[j] > 0
          /\ queue' = [queue EXCEPT ![j] = @ - 1]
          /\ msg' = [msg EXCEPT ![w] = j]
    /\ Goto(w, "lookup")
    /\ UNCHANGED <<docs, dbUp, job, lease_acquired, werr, elapsed, jsnap, expired_docs,
                   crashes, started, persisted, completed_msgs>>

\* A wrapper that skips only the documents that are finished.
skip_message_if_finished(d) ==
    [complete |-> d.status \in {"completed", "failed"},
     process |-> d.status \in {"queued", "processing"}]

\* A wrapper that completes the message before it processes the document.
skip_message_complete_first(d) ==
    [complete |-> TRUE, process |-> d.status = "queued"]

\* "if document.status != 'queued': complete_message; continue"
skip_message(d) ==
    [complete |-> d.status # "queued", process |-> d.status = "queued"]

\* scalar_one_or_none() of the SELECT: a row is there once its insert is
\* committed.
document_found(j) == upload[j] = "committed"

\* "if not document: complete_message; continue"
document_not_found == [complete |-> TRUE, process |-> FALSE]

\* The SELECT of the document and what follows it up to process_document;
\* a database error lands in the except branch, which abandons the message.
sb_lookup(w) ==
    /\ UNCHANGED text
    /\ UNCHANGED running
    /\ UNCHANGED pure
    /\ UNCHANGED upload
    /\ pc[w] = "lookup"
    /\ LET j == msg[w]
           r == IF document_found(j) THEN skip_message(docs[j]) ELSE document_not_found
       IN  \/ /\ dbUp
              /\ msg' = [msg EXCEPT ![w] = IF r.complete THEN NoJob ELSE j]
              /\ completed_msgs' = [completed_msgs EXCEPT ![j] =
                                       IF r.complete THEN @ + 1 ELSE @]
              /\ job' = [job EXCEPT ![w] = IF r.process THEN j ELSE NoJob]
              /\ Goto(w, IF r.process THEN "acquire" ELSE "idle")
           \/ /\ ~dbUp
              /\ Goto(w, "abandon")
              /\ UNCHANGED <<msg, completed_msgs, job>>
    /\ UNCHANGED <<docs, dbUp, lease_acquired, werr, elapsed, jsnap, expired_docs,
                   crashes, started, persisted, queue>>

\* success is True: complete_message.
sb_complete(w) ==
    /\ UNCHANGED text
    /\ UNCHANGED running
    /\ UNCHANGED pure
    /\ UNCHANGED upload
    /\ pc[w] = "complete"
    /\ completed_msgs' = [completed_msgs EXCEPT ![msg[w]] = @ + 1]
    /\ msg' = [msg EXCEPT ![w] = NoJob]
    /\ Goto(w, "idle")
    /\ UNCHANGED <<docs, dbUp, job, lease_acquired, werr, elapsed, jsnap, expired_docs,
                   crashes, started, persisted, queue>>

\* Any other outcome: abandon_message, and the queue delivers it again.
sb_abandon(w) ==
    /\ UNCHANGED text
    /\ UNCHANGED running
    /\ UNCHANGED pure
    /\ UNCHANGED upload
    /\ pc[w] = "abandon"
    /\ queue' = [queue EXCEPT ![msg[w]] = @ + 1]
    /\ msg' = [msg EXCEPT ![w] = NoJob]
    /\ Goto(w, "idle")
    /\ UNCHANGED <<docs, dbUp, job, lease_acquired, werr, elapsed, jsnap, expired_docs,
                   crashes, started, persisted, completed_msgs>>

(***************************************************************************)
(* DocumentWorker.janitor_clean_stuck_leases: the SELECT of the processing *)
(* rows with the reset decision taken on the loaded values, then the       *)
(* commit that writes the values computed from them.                       *)
(***************************************************************************)
should_reset(d) ==
    IF Expired(d) THEN TRUE
    ELSE IF d.processing_started_at = NoLease THEN FALSE
    ELSE d.processing_started_at[1] < 0 - 2

\* A reset that counts the attempt without the cap.
janitor_reset_uncapped(d, loaded_attempts) ==
    [d EXCEPT !.status = "queued",
              !.lease_expires_at = NoLease,
              !.message_enqueued_at = NoLease,
              !.processing_attempts = loaded_attempts + 1]

janitor_reset(d, loaded_attempts) ==
    [d EXCEPT !.status = "queued",
              !.lease_expires_at = NoLease,
              !.message_enqueued_at = NoLease,
              !.processing_attempts = Min(loaded_attempts + 1, max_retries)]

janitor_select ==
    /\ UNCHANGED text
    /\ UNCHANGED running
    /\ UNCHANGED pure
    /\ UNCHANGED upload
    /\ UNCHANGED <<persisted, queue, msg, completed_msgs>>
    /\ jsnap = {}
    /\ dbUp
    /\ LET stuck == {j \in Jobs : docs[j].status = "processing" /\ should_reset(docs[j])}
       IN  /\ stuck # {}
           /\ jsnap' = {[id |-> j, processing_attempts |-> docs[j].processing_attempts] :
                          j \in stuck}
    /\ UNCHANGED <<docs, dbUp, pc, job, lease_acquired, werr, elapsed, expired_docs,
                   crashes, started>>

janitor_commit ==
    /\ UNCHANGED text
    /\ UNCHANGED running
    /\ UNCHANGED pure
    /\ UNCHANGED upload
    /\ UNCHANGED <<persisted, queue, msg, completed_msgs>>
    /\ jsnap # {}
    /\ docs' = [j \in Jobs |->
                  IF dbUp /\ \E r \in jsnap : r.id = j
                  THEN janitor_reset(docs[j],
                                     (CHOOSE r \in jsnap : r.id = j).processing_attempts)
                  ELSE docs[j]]
    /\ jsnap' = {}
    /\ UNCHANGED <<dbUp, pc, job, lease_acquired, werr, elapsed, expired_docs,
                   crashes, started>>

(***************************************************************************)
(* DocumentWorker.recover_expired_leases: find_expired_leases, then one    *)
(* failure release per row returned.                                       *)
(***************************************************************************)
recover_find ==
    /\ UNCHANGED text
    /\ UNCHANGED running
    /\ UNCHANGED pure
    /\ UNCHANGED upload
    /\ UNCHANGED <<persisted, queue, msg, completed_msgs>>
    /\ expired_docs = {}
    /\ dbUp
    /\ find_expired_leases(docs) # {}
    /\ expired_docs' = find_expired_leases(docs)
    /\ UNCHANGED <<docs, dbUp, pc, job, lease_acquired, werr, elapsed, jsnap,
                   crashes, started>>

recover_release ==
    /\ UNCHANGED text
    /\ UNCHANGED running
    /\ UNCHANGED pure
    /\ UNCHANGED upload
    /\ UNCHANGED <<persisted, queue, msg, completed_msgs>>
    /\ \E j \in expired_docs :
          /\ docs' = [docs EXCEPT ![j] = release_lease(@, FALSE, "lease_expired", dbUp)]
          /\ expired_docs' = expired_docs \ {j}
    /\ UNCHANGED <<dbUp, pc, job, lease_acquired, werr, elapsed, jsnap, crashes, started>>

(***************************************************************************)
(* reset_stuck_documents of app/routes/admin.py.                           *)
(***************************************************************************)
admin_stuck(d) ==
    /\ d.status = "processing"
    /\ IF d.processing_started_at = NoLease THEN TRUE
       ELSE d.processing_started_at[1] < 0 - 2

admin_reset(d) ==
    [d EXCEPT !.status = "queued", !.progress = 0, !.processing_started_at = NoLease]

reset_stuck_documents ==
    /\ UNCHANGED text
    /\ UNCHANGED running
    /\ UNCHANGED pure
    /\ UNCHANGED upload
    /\ UNCHANGED <<persisted, queue, msg, completed_msgs>>
    /\ dbUp
    /\ \E j \in Jobs : admin_stuck(docs[j])
    /\ docs' = [j \in Jobs |-> IF admin_stuck(docs[j]) THEN admin_reset(docs[j])
                                ELSE docs[j]]
    /\ UNCHANGED <<dbUp, pc, job, lease_acquired, werr, elapsed, jsnap, expired_docs,
                   crashes, started>>

(***************************************************************************)
(* The environment: the database going away and coming back, and time.     *)
(***************************************************************************)
DbFail ==
    /\ UNCHANGED text
    /\ UNCHANGED running
    /\ UNCHANGED pure
    /\ UNCHANGED upload
    /\ UNCHANGED <<persisted, queue, msg, completed_msgs>>
    /\ dbUp
    /\ dbUp' = FALSE
    /\ UNCHANGED <<docs, pc, job, lease_acquired, werr, elapsed, jsnap, expired_docs,
                   crashes, started>>

DbRecover ==
    /\ UNCHANGED text
    /\ UNCHANGED running
    /\ UNCHANGED pure
    /\ UNCHANGED upload
    /\ UNCHANGED <<persisted, queue, msg, completed_msgs>>
    /\ ~dbUp
    /\ dbUp' = TRUE
    /\ UNCHANGED <<docs, pc, job, lease_acquired, werr, elapsed, jsnap, expired_docs,
                   crashes, started>>

\* Only an idle worker, a dead one, or an extraction within its timeout lets a
\* tick pass.
MayWait(w) ==
    \/ pc[w] \in {"idle", "crashed", "chunk"}
    \/ pc[w] = "extract" /\ elapsed[w] < StageTimeout("extract")

Age(lease) == IF lease = NoLease THEN NoLease ELSE <<Max(lease[1] - 1, 0 - 1)>>

Tick ==
    /\ UNCHANGED text
    /\ UNCHANGED running
    /\ UNCHANGED pure
    /\ UNCHANGED upload
    /\ UNCHANGED <<persisted, queue, msg, completed_msgs>>
    /\ \A w \in Workers : MayWait(w)
    /\ jsnap = {}
    /\ expired_docs = {}
    /\ docs' = [j \in Jobs |-> [docs[j] EXCEPT !.lease_expires_at = Age(@)]]
    /\ elapsed' = [w \in Workers |-> IF pc[w] = "extract" THEN elapsed[w] + 1 ELSE 0]
    /\ UNCHANGED <<dbUp, pc, job, lease_acquired, werr, jsnap, expired_docs,
                   crashes, started>>

WorkerStep(w) ==
    \/ process_batch(w)
    \/ pd_acquire(w)
    \/ pd_start(w)
    \/ pd_download(w)
    \/ pd_extract(w)
    \/ pd_embed(w)
    \/ pd_index(w)
    \/ pd_release_ok(w)
    \/ pd_final(w)
    \/ pd_release_fail(w)
    \/ Restart(w)

Next ==
    \/ \E w \in Workers : WorkerStep(w)
    \/ \E w \in Workers : pd_acquire_timeout(w)
    \/ \E w \in Workers : Crash(w)
    \/ janitor_select
    \/ janitor_commit
    \/ recover_find
    \/ recover_release
    \/ DbFail
    \/ DbRecover
    \/ Tick

Spec == Init /\ [][Next]_vars

NextAdmin == Next \/ reset_stuck_documents

SpecAdmin == Init /\ [][NextAdmin]_vars

\* The polling deployment with SIGINT / SIGTERM reaching the workers.
NextShutdown == Next \/ \E w \in Workers : handle_shutdown(w)

SpecShutdown == Init /\ [][NextShutdown]_vars

(***************************************************************************)
(* The workers of a deployment with Service Bus: run() calls               *)
(* process_from_service_bus instead of process_batch.                      *)
(***************************************************************************)
BusStep(w) ==
    \/ receive_messages(w)
    \/ sb_lookup(w)
    \/ pd_acquire(w)
    \/ pd_start(w)
    \/ pd_download(w)
    \/ pd_extract(w)
    \/ pd_embed(w)
    \/ pd_index(w)
    \/ pd_release_ok(w)
    \/ pd_final(w)
    \/ pd_release_fail(w)
    \/ sb_complete(w)
    \/ sb_abandon(w)
    \/ Restart(w)

NextBus ==
    \/ \E w \in Workers : BusStep(w)
    \/ \E w \in Workers : pd_acquire_timeout(w)
    \/ \E w \in Workers : Crash(w)
    \/ janitor_select
    \/ janitor_commit
    \/ recover_find
    \/ recover_release
    \/ DbFail
    \/ DbRecover
    \/ Tick

SpecBus == InitBus /\ [][NextBus]_vars

\* The worker loops taken alone, with the faults that make them raise, and
\* the event loop running every worker that can run.
NextBusLoop ==
    \/ \E w \in Workers : BusStep(w)
    \/ \E w \in Workers : pd_acquire_timeout(w)
    \/ \E w \in Workers : Crash(w)
    \/ DbFail
    \/ DbRecover

\* A deployment with Service Bus whose publishing may fail, database up,
\* with the scheduling of the worker loop, the janitor loop and the recovery
\* loop made fair.
NextBusLive ==
    \/ \E w \in Workers : BusStep(w)
    \/ \E w \in Workers : Crash(w)
    \/ janitor_select
    \/ janitor_commit
    \/ recover_find
    \/ recover_release
    \/ Tick

FairPublish ==
    /\ InitPublish
    /\ [][NextBusLive]_vars
    /\ \A w \in Workers : WF_vars(BusStep(w))
    /\ WF_vars(janitor_select \/ janitor_commit)
    /\ WF_vars(recover_find \/ recover_release)
    /\ WF_vars(Tick)

FairBus ==
    /\ InitBus
    /\ [][NextBusLoop]_vars
    /\ \A w \in Workers : WF_vars(BusStep(w))

(***************************************************************************)
(* upload_documents with Service Bus: the row is added and flushed, the    *)
(* message is sent, and the commit comes after the loop over the files.    *)
(* Until the commit the row is in the request's transaction only.          *)
(***************************************************************************)
\* session.add, session.flush, send_document_message (which swallows a
\* ServiceBusError and sends nothing).
upload_documents_send(j) ==
    /\ upload[j] = "none"
    /\ upload' = [upload EXCEPT ![j] = "sent"]
    /\ \/ queue' = [queue EXCEPT ![j] = @ + 1]
       \/ UNCHANGED queue
    /\ UNCHANGED <<docs, dbUp, pc, job, lease_acquired, werr, elapsed, jsnap, expired_docs,
                   crashes, started, persisted, msg, completed_msgs, text, running>>
    /\ UNCHANGED pure

\* "await session.commit()" after the loop.
upload_documents_commit(j) ==
    /\ upload[j] = "sent"
    /\ upload' = [upload EXCEPT ![j] = "committed"]
    /\ UNCHANGED <<docs, dbUp, pc, job, lease_acquired, werr, elapsed, jsnap, expired_docs,
                   crashes, started, persisted, queue, msg, completed_msgs, text, running>>
    /\ UNCHANGED pure

InitUpload ==
    /\ docs = [j \in Jobs |-> Document]
    /\ dbUp = TRUE
    /\ pc = [w \in Workers |-> "idle"]
    /\ job = [w \in Workers |-> NoJob]
    /\ lease_acquired = [w \in Workers |-> FALSE]
    /\ werr = [w \in Workers |-> NoError]
    /\ elapsed = [w \in Workers |-> 0]
    /\ jsnap = {}
    /\ expired_docs = {}
    /\ crashes = 0
    /\ started = [j \in Jobs |-> 0]
    /\ persisted = [w \in Workers |-> <<>>]
    /\ queue = [j \in Jobs |-> 0]
    /\ msg = [w \in Workers |-> NoJob]
    /\ completed_msgs = [j \in Jobs |-> 0]
    /\ text = [w \in Workers |-> NoText]
    /\ running = [w \in Workers |-> TRUE]
    /\ upload = [j \in Jobs |-> "none"]
    /\ documents = <<>>
    /\ queued_docs = <<>>
    /\ lines = <<>>
    /\ questions = <<>>
    /\ current_question = NoQuestion
    /\ current_subpoints = <<>>
    /\ cleaned_questions = NoResult
    /\ chunker = NoChunker

NextUpload ==
    \/ \E j \in Jobs : upload_documents_send(j)
    \/ \E j \in Jobs : upload_documents_commit(j)
    \/ \E w \in Workers : BusStep(w)
    \/ \E w \in Workers : pd_acquire_timeout(w)
    \/ \E w \in Workers : Crash(w)
    \/ DbFail
    \/ DbRecover

SpecUpload == InitUpload /\ [][NextUpload]_vars

(***************************************************************************)
(* The query of process_batch taken alone: SELECT ... WHERE status =       *)
(* 'queued' ORDER BY updated_at LIMIT batch_size, over a table of rows     *)
(* with a status and an updated_at; rows of equal updated_at come in any   *)
(* order.                                                                  *)
(***************************************************************************)
\* The workers and their table at rest, as in Init.
InitWorkers ==
    /\ docs = [j \in Jobs |-> Document]
    /\ dbUp = TRUE
    /\ pc = [w \in Workers |-> "idle"]
    /\ job = [w \in Workers |-> NoJob]
    /\ lease_acquired = [w \in Workers |-> FALSE]
    /\ werr = [w \in Workers |-> NoError]
    /\ elapsed = [w \in Workers |-> 0]
    /\ jsnap = {}
    /\ expired_docs = {}
    /\ crashes = 0
    /\ started = [j \in Jobs |-> 0]
    /\ persisted = [w \in Workers |-> <<>>]
    /\ queue = [j \in Jobs |-> 0]
    /\ msg = [w \in Workers |-> NoJob]
    /\ completed_msgs = [j \in Jobs |-> 0]
    /\ text = [w \in Workers |-> NoText]
    /\ running = [w \in Workers |-> TRUE]
    /\ upload = [j \in Jobs |-> "committed"]

workers_state ==
    <<docs, dbUp, pc, job, lease_acquired, werr, elapsed, jsnap, expired_docs, crashes,
      started, persisted, queue, msg, completed_msgs, text, running, upload>>

Statuses == {"queued", "processing", "completed", "failed"}

Rows == [status : Statuses, updated_at : 0..MaxStamp]

Oldest(rows, S) == {i \in S : \A k \in S : rows[i].updated_at <= rows[k].updated_at}

\* The sequences ORDER BY updated_at LIMIT n may return from the rows S.
RECURSIVE order_by_limit(_, _, _)
order_by_limit(rows, S, n) ==
    IF n = 0 \/ S = {} THEN {<<>>}
    ELSE UNION {{<<i>> \o s : s \in order_by_limit(rows, S \ {i}, n - 1)} :
                  i \in Oldest(rows, S)}

\* The sequences LIMIT n may return from the rows S without an ORDER BY.
RECURSIVE limit(_, _, _)
limit(rows, S, n) ==
    IF n = 0 \/ S = {} THEN {<<>>}
    ELSE UNION {{<<i>> \o s : s \in limit(rows, S \ {i}, n - 1)} : i \in S}

\* A query that leaves out the ORDER BY.
process_batch_query_unordered(rows) ==
    limit(rows, {i \in DOMAIN rows : rows[i].status = "queued"}, batch_size)

process_batch_query(rows) ==
    order_by_limit(rows, {i \in DOMAIN rows : rows[i].status = "queued"}, batch_size)

InitPoll ==
    /\ InitWorkers
    /\ documents \in UNION {[1..n -> Rows] : n \in 0..MaxRows}
    /\ queued_docs = <<>>
    /\ lines = <<>>
    /\ questions = <<>>
    /\ current_question = NoQuestion
    /\ current_subpoints = <<>>
    /\ cleaned_questions = NoResult
    /\ chunker = NoChunker

poll ==
    /\ \E s \in process_batch_query(documents) : queued_docs' = s
    /\ UNCHANGED <<documents, lines, questions, current_question, current_subpoints,
                   cleaned_questions>>
    /\ UNCHANGED workers_state
    /\ UNCHANGED chunker

SpecPoll == InitPoll /\ [][poll]_vars

(***************************************************************************)
(* _parse_questions_from_text taken alone.  A line is what the parser      *)
(* looks at: its indentation, the numbering or nested bullet it starts     *)
(* with, the word count and the length of its cleaned text, how it ends    *)
(* ("inner": a '?' that is not its last character) and whether a question  *)
(* word occurs in it.  A text is its length and its ending.                *)
(***************************************************************************)
Indents == {0, 4, 8}
Prefixes == {"none", "number", "o"}
Endings == {"none", "colon", "question", "inner"}
\* <<word count, length>> of a cleaned line.
Sizes == {<<1, 2>>, <<3, 25>>, <<8, 50>>}

\* Two characters cannot hold both a question word and a ':' or a '?'.
Lines ==
    {line \in
        {[leading_spaces |-> i, prefix |-> p, word_count |-> s[1], length |-> s[2],
          ending |-> e, question_word |-> q] :
            i \in Indents, p \in Prefixes, s \in Sizes, e \in Endings, q \in BOOLEAN} :
        ~(line.length = 2 /\ line.question_word /\ line.ending # "none")}

\* len(stripped): the cleaned text and the "1. " or "o " before it.
stripped_length(line) ==
    line.length + (IF line.prefix = "number" THEN 3 ELSE IF line.prefix = "o" THEN 2 ELSE 0)

has_own_numbering(line) == line.prefix = "number"
is_nested_bullet(line) == line.prefix = "o"
has_question_mark(line) == line.ending \in {"question", "inner"}
ends_with_colon(line) == line.ending = "colon"
ends_with_question(line) == line.ending = "question"
starts_with_question_word(line) == line.question_word

could_be_subpoint(line) == is_nested_bullet(line) \/ line.leading_spaces >= 8

is_title(line, cq) ==
    \/ /\ ~has_question_mark(line)
       /\ ~ends_with_colon(line)
       /\ ~starts_with_question_word(line)
       /\ line.word_count < 5
       /\ ~(cq # NoQuestion /\ could_be_subpoint(line))
    \/ /\ line.word_count < 3
       /\ ~ends_with_question(line)
       /\ ~ends_with_colon(line)
       /\ ~could_be_subpoint(line)

parent_expects_sublist(cq) == cq[1].ending = "colon"

is_subpoint(line, cq) ==
    /\ cq # NoQuestion
    /\ IF line.leading_spaces >= 8 THEN TRUE
       ELSE IF is_nested_bullet(line) THEN TRUE
       ELSE IF line.leading_spaces >= 4
            THEN \/ parent_expects_sublist(cq)
                 \/ line.length < 40 /\ ~ends_with_question(line)
       ELSE /\ line.length < 30
            /\ ~ends_with_question(line)
            /\ ~starts_with_question_word(line)

is_parent(line, cq) ==
    /\ ~is_subpoint(line, cq)
    /\ \/ ends_with_question(line) \/ ends_with_colon(line)
       \/ starts_with_question_word(line) /\ line.length > 20 /\ line.leading_spaces < 8
       \/ has_question_mark(line) /\ line.length > 15

RECURSIVE joined_length(_)
\* len('\n' + '\n'.join(f"    - {sp}" for sp in subpoints))
joined_length(subpoints) ==
    IF subpoints = <<>> THEN 0
    ELSE 7 + Head(subpoints) + joined_length(Tail(subpoints))

\* The question appended to questions: the parent's text and its sub-points.
question_text(cq, subpoints) ==
    [length |-> cq[1].length + joined_length(subpoints), subpoints |-> subpoints]

\* questions with the current question, if there is one, appended.
flushed(qs, cq, subpoints) ==
    IF cq # NoQuestion THEN Append(qs, question_text(cq, subpoints)) ELSE qs

\* A sub-point of at most two characters is not kept.
keeps_subpoint(line) == line.length > 2

\* One iteration of the loop over the lines.
parse_line ==
    /\ lines # <<>>
    /\ cleaned_questions = NoResult
    /\ lines' = Tail(lines)
    /\ LET line == Head(lines)
           cq == current_question
       IN  IF is_title(line, cq)
           THEN UNCHANGED <<questions, current_question, current_subpoints>>
           ELSE IF is_parent(line, cq)
           THEN IF cq # NoQuestion /\ ~has_own_numbering(line) /\ line.leading_spaces >= 4
                THEN /\ current_question' =
                          <<[length |-> cq[1].length + 1 + stripped_length(line),
                             ending |-> line.ending]>>
                     /\ UNCHANGED <<questions, current_subpoints>>
                ELSE /\ questions' = flushed(questions, cq, current_subpoints)
                     /\ current_question' =
                          <<[length |-> line.length, ending |-> line.ending]>>
                     /\ current_subpoints' = <<>>
           ELSE IF is_subpoint(line, cq)
           THEN /\ current_subpoints' =
                     IF keeps_subpoint(line) THEN Append(current_subpoints, line.length)
                     ELSE current_subpoints
                /\ UNCHANGED <<questions, current_question>>
           ELSE UNCHANGED <<questions, current_question, current_subpoints>>
    /\ UNCHANGED <<documents, queued_docs, cleaned_questions>>
    /\ UNCHANGED workers_state
    /\ UNCHANGED chunker

long_enough(q) == q.length > 10

\* After the loop: the last question is appended and the short ones dropped.
parse_finish ==
    /\ lines = <<>>
    /\ cleaned_questions = NoResult
    /\ questions' = flushed(questions, current_question, current_subpoints)
    /\ cleaned_questions' = <<SelectSeq(questions', long_enough)>>
    /\ UNCHANGED <<documents, queued_docs, lines, current_question, current_subpoints>>
    /\ UNCHANGED workers_state
    /\ UNCHANGED chunker

InitParse ==
    /\ InitWorkers
    /\ documents = <<>>
    /\ queued_docs = <<>>
    /\ lines \in UNION {[1..n -> Lines] : n \in 0..MaxLines}
    /\ questions = <<>>
    /\ current_question = NoQuestion
    /\ current_subpoints = <<>>
    /\ cleaned_questions = NoResult
    /\ chunker = NoChunker

NextParse == parse_line \/ parse_finish

SpecParse == InitParse /\ [][NextParse]_vars

\* The fair system without crashes, with the texts on which chunk_text does
\* not return.
AttemptStep(w) ==
    \/ process_batch(w)
    \/ pd_acquire(w)
    \/ pd_start(w)
    \/ pd_download(w)
    \/ pd_extract(w)
    \/ pd_embed(w)
    \/ pd_index(w)
    \/ pd_release_ok(w)
    \/ pd_final(w)
    \/ pd_release_fail(w)

NextStages ==
    \/ \E w \in Workers : AttemptStep(w)
    \/ \E w \in Workers : pd_chunk_loops(w)
    \/ janitor_select
    \/ janitor_commit
    \/ recover_find
    \/ recover_release
    \/ Tick

FairStages ==
    /\ Init
    /\ [][NextStages]_vars
    /\ \A w \in Workers : WF_vars(AttemptStep(w))
    /\ WF_vars(janitor_select \/ janitor_commit)
    /\ WF_vars(recover_find \/ recover_release)
    /\ WF_vars(Tick)

(***************************************************************************)
(* DocumentProcessor.chunk_text taken alone, one action per iteration of   *)
(* its while loop, over every text of up to MaxChunkText characters and    *)
(* every configuration with 0 <= chunk_overlap < chunk_size.               *)
(***************************************************************************)
ChunkChars == {"a", " ", ".", "\n"}

ChunkTexts == UNION {[1..n -> ChunkChars] : n \in 0..MaxChunkText}

InitChunk ==
    /\ InitWorkers
    /\ documents = <<>>
    /\ queued_docs = <<>>
    /\ lines = <<>>
    /\ questions = <<>>
    /\ current_question = NoQuestion
    /\ current_subpoints = <<>>
    /\ cleaned_questions = NoResult
    /\ \E s \in ChunkTexts, size \in 1..MaxChunkSize :
          \E overlap \in 0..(size - 1) :
             chunker = [text |-> s, chunk_size |-> size, chunk_overlap |-> overlap,
                        start |-> 0, iterations |-> 0]

\* One iteration of "while start < len(text)"; a blank text returns before
\* the loop.
chunk_step ==
    /\ strip(chunker.text) # <<>>
    /\ chunker.start < Len(chunker.text)
    /\ chunker.iterations < MaxIterations
    /\ chunker' = [chunker EXCEPT
                      !.start = next_start(chunker.text, chunker.chunk_size,
                                           chunker.chunk_overlap, chunker.start),
                      !.iterations = @ + 1]
    /\ UNCHANGED <<documents, queued_docs, lines, questions, current_question,
                   current_subpoints, cleaned_questions>>
    /\ UNCHANGED workers_state

SpecChunk == InitChunk /\ [][chunk_step]_vars

(***************************************************************************)
(* The polling loop of one worker over a table of several rows: the query  *)
(* of process_batch, the acquire of process_document on the row selected,  *)
(* and the release that ends the attempt.  Every write through the ORM     *)
(* sets updated_at to the current time (onupdate).                         *)
(***************************************************************************)
\* A Queued row: a new upload, or one the janitor or a failure release has
\* put back.
PollRow(stamp, attempts) ==
    [status |-> "queued", progress |-> 0, chunk_count |-> 0,
     processing_attempts |-> attempts, lease_expires_at |-> NoLease,
     last_error |-> NoError, updated_at |-> stamp]

PollRows == {PollRow(s, a) : s \in 0..MaxStamp, a \in 0..max_retries}

RECURSIVE newest(_)
\* The latest updated_at of the table.
newest(rows) ==
    IF rows = <<>> THEN 0 ELSE Max(Head(rows).updated_at, newest(Tail(rows)))

InitPollLoop ==
    /\ InitWorkers
    /\ documents \in UNION {[1..n -> PollRows] : n \in 0..MaxRows}
    /\ queued_docs = <<>>
    /\ lines = <<>>
    /\ questions = <<>>
    /\ current_question = NoQuestion
    /\ current_subpoints = <<>>
    /\ cleaned_questions = NoResult
    /\ chunker = NoChunker

\* The query of process_batch at the start of an iteration of run().
poll_select ==
    /\ queued_docs = <<>>
    /\ poll

\* process_document on the row selected: no lease, and it returns False;
\* or the lease, and progress = 10 is written.
poll_attempt ==
    /\ queued_docs # <<>>
    /\ LET i == Head(queued_docs)
           r == acquire_lease(documents[i], TRUE)
       IN  /\ documents[i].status # "processing"
           /\ IF r.acquired
              THEN /\ documents' = [documents EXCEPT ![i] =
                         [r.doc EXCEPT !.progress = 10,
                                       !.updated_at = newest(documents) + 1]]
                   /\ UNCHANGED queued_docs
              ELSE /\ queued_docs' = Tail(queued_docs)
                   /\ UNCHANGED documents
    /\ UNCHANGED <<lines, questions, current_question, current_subpoints, cleaned_questions>>
    /\ UNCHANGED workers_state
    /\ UNCHANGED chunker

\* The attempt ends with the success release or with a failure release.
poll_release ==
    /\ queued_docs # <<>>
    /\ LET i == Head(queued_docs)
       IN  /\ documents[i].status = "processing"
           /\ \E success \in BOOLEAN :
                 documents' = [documents EXCEPT ![i] =
                                  release_document_lease(@, success, "error")]
    /\ queued_docs' = Tail(queued_docs)
    /\ UNCHANGED <<lines, questions, current_question, current_subpoints, cleaned_questions>>
    /\ UNCHANGED workers_state
    /\ UNCHANGED chunker

NextPollLoop == poll_select \/ poll_attempt \/ poll_release

FairPoll ==
    /\ InitPollLoop
    /\ [][NextPollLoop]_vars
    /\ WF_vars(NextPollLoop)

(***************************************************************************)
(* The same system with a database that stays up and the scheduling of     *)
(* the worker loop, the janitor loop and the recovery loop made fair.      *)
(***************************************************************************)
NextLive ==
    \/ \E w \in Workers : WorkerStep(w)
    \/ \E w \in Workers : Crash(w)
    \/ janitor_select
    \/ janitor_commit
    \/ recover_find
    \/ recover_release
    \/ Tick

FairSpec ==
    /\ Init
    /\ [][NextLive]_vars
    /\ \A w \in Workers : WF_vars(WorkerStep(w))
    /\ WF_vars(janitor_select \/ janitor_commit)
    /\ WF_vars(recover_find \/ recover_release)
    /\ WF_vars(Tick)

(***************************************************************************)
(* Properties.                                                             *)
(***************************************************************************)
Holders(j) == {w \in Workers : InAttempt(w) /\ job[w] = j}

Leasable(d) == d.status = "queued" /\ d.processing_attempts < max_retries

\* The step in which worker w's acquire_lease call returns.
AcquireReturns(w) == pc[w] = "acquire" /\ pc'[w] = "start"

\* C1: of the acquire calls racing for a job that is Queued with attempts left,
\* the one the Job Store serves first returns true and leaves the job
\* Processing, so that every other call finds it no longer Queued; a call that
\* returns false has changed no field of the job.
C1_AcquireRace ==
    [][\A w \in Workers :
          AcquireReturns(w) =>
             LET j == job[w]
             IN  IF dbUp /\ Leasable(docs[j])
                 THEN /\ lease_acquired'[w]
                      /\ docs'[j].status = "processing"
                      /\ ~acquire_lease(docs'[j], dbUp').acquired
                 ELSE /\ ~lease_acquired'[w]
                      /\ docs'[j] = docs[j]]_vars

\* Two workers raced for a fresh job: one call returned true, the other false.
C1_Witness ==
    \E w1, w2 \in Workers :
        /\ w1 # w2
        /\ job[w1] = job[w2]
        /\ pc[w1] = "start" /\ lease_acquired[w1]
        /\ pc[w2] = "start" /\ ~lease_acquired[w2]
        /\ docs[job[w1]].processing_attempts = 1
        /\ started[job[w1]] = 1

\* C2: at no time are two workers both between their own successful acquire
\* and their own release of the same job.
C2_OneWorkerPerJob ==
    \A j \in Jobs : Cardinality(Holders(j)) <= 1

\* C3: at most one worker has acquired the job, has not released it, and sees
\* the job's current lease_expires_at still in the future.
C3_OneValidLease ==
    \A j \in Jobs :
        (docs[j].lease_expires_at # NoLease /\ ~Expired(docs[j]))
            => Cardinality(Holders(j)) <= 1

\* C4: lease_expires_at is non-null if and only if status is Processing.
C4_LeaseIffProcessing ==
    \A j \in Jobs :
        (docs[j].lease_expires_at # NoLease) <=> (docs[j].status = "processing")

C6_TerminalStatus ==
    [][\A j \in Jobs :
          docs[j].status \in {"completed", "failed"}
             => docs'[j].status = docs[j].status]_vars

\* C7: every job eventually reaches Completed or Failed.
C7_ForwardProgress ==
    \A j \in Jobs : <>(docs[j].status \in {"completed", "failed"})

\* The step in which the janitor or the recovery writes job j.
Recovers(j) ==
    \/ /\ jsnap # {} /\ jsnap' = {}
       /\ \E r \in jsnap : r.id = j
    \/ /\ j \in expired_docs /\ j \notin expired_docs'

\* C8: a job that is Processing with an expired lease and no worker on it
\* leaves Processing when the sweeper writes it: Queued if attempts remain,
\* Failed otherwise.
C8_RecoveryOutcome ==
    [][\A j \in Jobs :
          (/\ Recovers(j)
           /\ dbUp
           /\ docs[j].status = "processing"
           /\ Expired(docs[j])
           /\ Holders(j) = {})
             => docs'[j].status =
                   IF docs[j].processing_attempts < max_retries
                   THEN "queued" ELSE "failed"]_vars

\* C9: a job that ends Failed was attempted exactly max_attempts times and
\* has attempts = max_attempts; a job requeued after a failure still has
\* attempts equal to the attempts made.
C9_RetryBudget ==
    \A j \in Jobs :
        docs[j].status = "failed"
            => (started[j] = max_retries /\ docs[j].processing_attempts = max_retries)

\* The step in which worker w's failure release returns.
ReleaseFails(w) == pc[w] \in {"release_fail", "release_again"} /\ pc'[w] = "idle"

FailureReleased(before, after, error_msg) ==
    /\ after.lease_expires_at = NoLease
    /\ after.last_error = error_msg
    /\ after.processing_attempts = before.processing_attempts
    /\ IF before.processing_attempts < max_retries
       THEN after.status = "queued" /\ after.progress = 0
       ELSE after.status = "failed"

\* C10: a failure release of a Processing job clears the lease, records the
\* message, leaves attempts alone, and requeues the job with progress 0 when
\* attempts remain, else fails it.
C10_FailureRelease ==
    [][/\ \A w \in Workers :
             (ReleaseFails(w) /\ dbUp /\ docs[job[w]].status = "processing")
                => FailureReleased(docs[job[w]], docs'[job[w]], werr[w])
       /\ \A j \in Jobs :
             (j \in expired_docs /\ j \notin expired_docs' /\ dbUp
                /\ docs[j].status = "processing")
                => FailureReleased(docs[j], docs'[j], "lease_expired")]_vars

\* A job failed for good by the failure release of its last attempt.
C10_Witness ==
    \E j \in Jobs :
        /\ docs[j].status = "failed"
        /\ docs[j].last_error = "no_text"
        /\ docs[j].processing_attempts = max_retries
        /\ docs[j].lease_expires_at = NoLease

\* C11: a Queued job always has attempts left (attempts < max_attempts); a job
\* whose budget is used up is Failed, not Queued.
C11_QueuedHasBudget ==
    \A j \in Jobs :
        docs[j].status = "queued" => docs[j].processing_attempts < max_retries

\* C12: a job's attempts equals the number of successful acquire calls made
\* on it since it was created.
C12_AttemptsCountAcquires ==
    \A j \in Jobs : docs[j].processing_attempts = started[j]

\* C13: every job has 0 <= attempts <= max_attempts.
C13_AttemptsBounded ==
    \A j \in Jobs :
        /\ 0 <= docs[j].processing_attempts
        /\ docs[j].processing_attempts <= max_retries

\* The janitor has reset a job that was in its last attempt.
C13_Witness ==
    \E j \in Jobs :
        /\ docs[j].status = "queued"
        /\ docs[j].processing_attempts = max_retries
        /\ started[j] = max_retries

\* C14: a Completed job has progress 100, no last_error and no lease.
C14_CompletedShape ==
    \A j \in Jobs :
        docs[j].status = "completed"
            => /\ docs[j].progress = 100
               /\ docs[j].last_error = NoError
               /\ docs[j].lease_expires_at = NoLease

HappyProgress == <<10, 25, 50, 70, 90, 100>>

\* C15: when every stage of an attempt has succeeded and the success release
\* has run, the progress values the attempt persisted are 10, 25, 50, 70, 90,
\* 100 in that order and the job is Completed with progress 100 and no error.
C15_HappyPath ==
    \A w \in Workers :
        pc[w] = "final"
            => /\ persisted[w] = HappyProgress
               /\ docs[job[w]].status = "completed"
               /\ docs[job[w]].progress = 100
               /\ docs[job[w]].last_error = NoError

\* C16: while a job stays in one processing attempt its progress never
\* decreases; a success release leaves it at 100; and progress goes back to 0
\* only in a step that leaves the job Queued.
C16_ProgressMonotonic ==
    [][\A j \in Jobs :
          /\ (/\ docs[j].status = "processing"
              /\ docs'[j].status = "processing"
              /\ started'[j] = started[j])
                => docs'[j].progress >= docs[j].progress
          /\ (docs[j].status = "processing" /\ docs'[j].status = "completed")
                => docs'[j].progress = 100
          /\ (docs[j].progress > 0 /\ docs'[j].progress = 0)
                => docs'[j].status = "queued"]_vars

\* C17: a Queued job has progress 0.
C17_QueuedProgressZero ==
    \A j \in Jobs : docs[j].status = "queued" => docs[j].progress = 0

\* C18: a failure release that the recovery issues for a job which is no
\* longer Processing with an expired lease changes none of the job's fields.
C18_SweeperIdempotent ==
    [][\A j \in Jobs :
          (/\ j \in expired_docs
           /\ j \notin expired_docs'
           /\ ~(docs[j].status = "processing" /\ Expired(docs[j])))
             => docs'[j] = docs[j]]_vars

\* C19: handling a notification whose job is found not Queued completes the
\* message, starts no pipeline attempt and changes no field of any job.
C19_StaleNotification ==
    [][\A w \in Workers :
          (/\ pc[w] = "lookup"
           /\ pc'[w] \notin {"lookup", "crashed"}
           /\ dbUp
           /\ docs[msg[w]].status # "queued")
             => /\ msg'[w] = NoJob
                /\ completed_msgs'[msg[w]] = completed_msgs[msg[w]] + 1
                /\ queue' = queue
                /\ pc'[w] = "idle"
                /\ job'[w] = NoJob
                /\ docs' = docs]_vars

\* Two messages of a job attempted once are completed: at least one of them
\* was a notification for a job no longer Queued.
C19_Witness ==
    \E j \in Jobs :
        /\ docs[j].status \in {"completed", "failed"}
        /\ started[j] = 1
        /\ completed_msgs[j] = 2

AttemptPcs ==
    {"acquire", "start", "download", "extract", "embed", "index", "release_ok",
     "final", "release_fail", "release_again"}

\* C20: the message of a job found Queued is completed only once
\* process_document has returned; while the attempt runs the worker still
\* holds the message, and a crash in the attempt hands it back to the queue.
C20_AckAfterAttempt ==
    [][\A w \in Workers :
          /\ (/\ msg[w] # NoJob
              /\ msg'[w] = NoJob
              /\ completed_msgs'[msg[w]] > completed_msgs[msg[w]]
              /\ ~(pc[w] = "lookup" /\ docs[msg[w]].status # "queued"))
                => (pc[w] = "complete" /\ job[w] = NoJob)
          /\ pc'[w] \in AttemptPcs => (msg'[w] # NoJob /\ msg'[w] = job'[w])
          /\ (pc[w] \in AttemptPcs /\ pc'[w] = "crashed")
                => /\ queue'[msg[w]] = queue[msg[w]] + 1
                   /\ completed_msgs' = completed_msgs]_vars

\* The only message of a job was completed after the attempt that finished it.
C20_Witness ==
    \E j \in Jobs :
        /\ docs[j].status = "completed"
        /\ completed_msgs[j] = 1
        /\ queue[j] = 0
        /\ \A w \in Workers : msg[w] = NoJob /\ pc[w] = "idle"

\* C21: when the lease is not obtained (acquire returns false, fails on a
\* database error, or times out) process_document enters no stage and the job
\* is left as it was.
C21_NoLeaseNoWrite ==
    [][\A w \in Workers :
          /\ (/\ pc[w] = "acquire"
              /\ pc'[w] \notin {"acquire", "crashed"}
              /\ ~(pc'[w] = "start" /\ lease_acquired'[w]))
                => (docs' = docs /\ pc'[w] \in {"start", "idle", "abandon"})
          /\ (/\ pc[w] = "start"
              /\ ~lease_acquired[w]
              /\ pc'[w] \notin {"start", "crashed"})
                => (docs' = docs /\ pc'[w] \in {"idle", "abandon"})]_vars

NextStage(p) ==
    CASE p = "download" -> "extract"
      [] p = "extract"  -> "embed"
      [] p = "embed"    -> "index"
      [] p = "index"    -> "release_ok"

\* C22: a stage that raises or times out is followed by no later stage: the
\* worker goes to the failure release with the error, and the release is
\* issued for the job before process_document returns.
C22_StageFailureReleases ==
    [][\A w \in Workers :
          /\ (pc[w] \in Stages /\ pc'[w] \notin {pc[w], "crashed", NextStage(pc[w])})
                => (pc'[w] = "release_fail" /\ werr'[w] # NoError)
          /\ (pc[w] = "release_fail" /\ pc'[w] \notin {"release_fail", "crashed"})
                => /\ pc'[w] \in {"idle", "abandon"}
                   /\ dbUp => /\ docs'[job[w]].last_error = werr[w]
                               /\ docs'[job[w]].lease_expires_at = NoLease
                               /\ docs'[job[w]].status \in {"queued", "failed"}]_vars

\* A stage has timed out and the worker is about to issue the failure release.
C22_Witness ==
    \E w \in Workers : pc[w] = "release_fail" /\ werr[w] = "timeout"

C25_PollingFallback ==
    \A j \in Jobs :
        (docs[j].status = "queued" /\ docs[j].processing_attempts < max_retries)
            ~> (\E w \in Workers : job[w] = j /\ pc[w] = "acquire")

\* C26: the janitor and the recovery never reclaim a job that a live worker
\* is still processing: its lease is renewed for as long as the attempt runs.
C26_LiveJobNotReclaimed ==
    [][\A j \in Jobs :
          (Recovers(j) /\ docs'[j] # docs[j]) => Holders(j) = {}]_vars

\* C27: a poll selects at most batch_size rows, all of them Queued, and no
\* Queued row left out is older than a row selected.
C27_OldestQueuedFirst ==
    LET picked == {queued_docs[i] : i \in 1..Len(queued_docs)}
    IN  /\ Len(queued_docs) <= batch_size
        /\ \A i \in picked :
              /\ documents[i].status = "queued"
              /\ \A k \in DOMAIN documents \ picked :
                    documents[k].status = "queued"
                        => documents[k].updated_at >= documents[i].updated_at

\* A poll took the older of two Queued rows and passed over an older row that
\* is not Queued.
C27_Witness ==
    /\ Len(queued_docs) = 1
    /\ \E k, n \in DOMAIN documents :
          /\ documents[k].status = "queued"
          /\ documents[k].updated_at > documents[queued_docs[1]].updated_at
          /\ documents[n].status = "processing"
          /\ documents[n].updated_at < documents[queued_docs[1]].updated_at

\* C28: the shutdown signal changes nothing but the flag; a worker whose flag
\* is cleared starts no new iteration, and one that is in an attempt leaves it
\* only through its release, which alone clears the lease it holds.
C28_GracefulShutdown ==
    [][\A w \in Workers :
          /\ (running[w] /\ ~running'[w])
                => (docs' = docs /\ pc' = pc /\ job' = job
                      /\ lease_acquired' = lease_acquired)
          /\ (~running[w] /\ pc[w] = "idle") => pc'[w] = "idle"
          /\ (~running[w] /\ InAttempt(w) /\ pc'[w] = "idle")
                => pc[w] = "release_fail"
          /\ (/\ ~running[w]
              /\ InAttempt(w)
              /\ pc'[w] \notin {pc[w], "crashed"}
              /\ docs[job[w]].lease_expires_at # NoLease
              /\ docs'[job[w]].lease_expires_at = NoLease)
                => pc[w] \in {"release_ok", "release_fail"}]_vars

\* A worker told to shut down has carried its attempt through the success
\* release.
C28_Witness ==
    \E w \in Workers :
        /\ ~running[w]
        /\ pc[w] = "final"
        /\ docs[job[w]].status = "completed"

\* The step of an administrative reset: some job changes status and no
\* worker, janitor or recovery has moved.
AdminStep ==
    /\ \E k \in Jobs : docs'[k].status # docs[k].status
    /\ UNCHANGED <<pc, jsnap, expired_docs, dbUp>>

\* C29: an administrative reset that puts a job back to Queued clears its
\* lease, sets its progress to 0 and leaves its attempts or zeroes them, and
\* it changes no Completed or Failed job.
C29_AdminReset ==
    [][AdminStep =>
          \A j \in Jobs :
              /\ docs'[j].status # docs[j].status
                    => /\ docs'[j].status = "queued"
                       /\ docs'[j].lease_expires_at = NoLease
                       /\ docs'[j].progress = 0
                       /\ docs'[j].processing_attempts \in {docs[j].processing_attempts, 0}
              /\ docs[j].status \in {"completed", "failed"} => docs'[j] = docs[j]]_vars

\* An indented line read under a parent question that ends with ':'.
IndentedUnderParent ==
    /\ lines # <<>>
    /\ lines' = Tail(lines)
    /\ current_question # NoQuestion
    /\ parent_expects_sublist(current_question)
    /\ Head(lines).leading_spaces >= 4

\* C30: every indented line read under a parent question that ends with ':'
\* is added to that question's sub-points, whatever its length and word
\* count, and starts no question of its own.
C30_IndentedLinesAreSubpoints ==
    [][IndentedUnderParent =>
          /\ current_subpoints' = Append(current_subpoints, Head(lines).length)
          /\ current_question' = current_question
          /\ questions' = questions]_vars

\* Worker w is in the only attempt its job ever had, and the job is Queued
\* again although w has not released: the lease w took has expired and the
\* janitor or the recovery has requeued the job.
Reclaimed(w) ==
    /\ InAttempt(w)
    /\ started[job[w]] = 1
    /\ docs[job[w]].status = "queued"

\* What the lease protects of a job.
Protected(d) == <<d.status, d.progress, d.chunk_count, d.lease_expires_at>>

\* C31: a worker whose lease on a job has expired and been reclaimed no longer
\* affects the job: no step it takes changes the job's status, progress,
\* chunk_count or lease.
C31_StaleWorkerNoEffect ==
    [][\A w \in Workers :
          Reclaimed(w) /\ pc'[w] # pc[w]
              => Protected(docs'[job[w]]) = Protected(docs[job[w]])]_vars

\* Worker w has called the success release and process_document has not
\* returned yet.
AfterSuccessRelease(w) == pc[w] \in {"final", "release_again"}

\* C32: after the success release of an attempt, process_document calls no
\* release again before it returns, whatever fails after it.
C32_ReleaseOnce ==
    [][\A w \in Workers :
          AfterSuccessRelease(w) => ~pd_release_ok(w) /\ ~pd_release_fail(w)]_vars

\* process_document returns True in this step of worker w.
ReturnsTrue(w) == pc[w] = "final" /\ pc'[w] \in {"idle", "complete"}

\* C33: process_document returns True, and the job's message goes on to be
\* completed, only if the job's status in the table is Completed.
C33_TrueOnlyIfCompleted ==
    [][\A w \in Workers :
          ReturnsTrue(w) => docs[job[w]].status = "completed"]_vars

\* C34: no message of a job is completed while the row of the job is still
\* uncommitted in the upload request: the worker does not take the job for
\* missing when its row is about to be committed as Queued.
C34_NoDiscardBeforeCommit ==
    [][\A j \in Jobs :
          upload[j] = "sent" => completed_msgs'[j] = completed_msgs[j]]_vars

\* C35: in poll mode every Queued row with attempts left is eventually
\* selected and attempted, whatever rows that cannot be leased are Queued
\* beside it.
C35_NoHeadOfLineBlocking ==
    \A i \in 1..MaxRows :
        (i \in DOMAIN documents /\ Leasable(documents[i]))
            ~> (i \in DOMAIN documents /\ documents[i].status = "processing")

\* C39: on every iteration of the loop of chunk_text the window start
\* strictly increases, for every text and every configuration with
\* 0 <= chunk_overlap < chunk_size, so that the loop ends.
C39_StartIncreases ==
    [][chunker' # chunker => chunker'.start > chunker.start]_vars

\* C36: every attempt that acquired the lease eventually calls release and
\* returns to the loop, whatever the stage calls do.
C36_AttemptReturns ==
    \A w \in Workers : InAttempt(w) ~> (pc[w] = "idle")

\* lease_expires_at is set and not yet past.
LeaseInFuture(d) == d.lease_expires_at # NoLease /\ ~Expired(d)

\* The janitor or the lease recovery writes in this step.
SweeperWrites == jsnap' # jsnap \/ expired_docs' # expired_docs

\* C37: the janitor and the lease recovery never set back to Queued a
\* Processing job whose lease_expires_at is still in the future.
C37_ResetOnlyExpired ==
    [][\A j \in Jobs :
          SweeperWrites /\ docs[j].status = "processing" /\ LeaseInFuture(docs[j])
              => docs'[j].status # "queued"]_vars

\* process_document returns False in this step of worker w, which holds a
\* message: no lease, an acquire timeout, or the end of a failure release.
ReturnsFalse(w) ==
    /\ msg[w] # NoJob
    /\ pc[w] \in {"acquire", "start", "release_fail", "release_again"}
    /\ pc'[w] \notin AttemptPcs \cup {"crashed"}

\* The handling of the message raises before process_document is called.
HandlingRaises(w) == pc[w] = "lookup" /\ ~dbUp /\ pc'[w] \notin {"lookup", "crashed"}

\* The job of the message is missing or not Queued when the worker looks.
NothingToDo(w) ==
    /\ pc[w] = "lookup"
    /\ dbUp
    /\ ~document_found(msg[w]) \/ docs[msg[w]].status # "queued"

====
